---------------------------- MODULE Spec2Model ----------------------------
(***************************************************************************)
(* Model of the OTO shipping plugin (oto/utils.py): the outbound order     *)
(* identifier, the webhook signature check and the webhook handler that    *)
(* reconciles a fulfillment's tracking number and metadata.                *)
(*                                                                         *)
(* Python strings that the code concatenates, splits or parses are         *)
(* sequences of one-character strings; dictionaries are functions whose    *)
(* domain is the set of keys present.                                      *)
(***************************************************************************)
EXTENDS Integers, Sequences, FiniteSets, TLC

VARIABLES
    db,        \* Fulfillment table: (order pk, fulfillment_order) -> row
    users,     \* User table: the set of e-mail addresses that have a row
    outbound,  \* body of the last cancel-order request built for the provider
    last,      \* the last webhook handled start to end: request, response, host calls
    procs,     \* concurrent deliveries: each worker's position and local objects
    vreq,      \* signature check in isolation: the request under verification
    vres,      \*   its verdict
    vbase,     \*   the verified request it was derived from by one change
    persisted  \* per fulfillment, the payload of the latest save, if any

vars == <<db, users, outbound, last, procs, vreq, vres, vbase, persisted>>

----------------------------------------------------------------------------
\* Bounds of the model.

MaxSeq == 1          \* fulfillment_order ranges over 0..MaxSeq
MaxTimestamp == 2    \* webhook timestamps range over "1".."MaxTimestamp"

----------------------------------------------------------------------------
\* Python values.

None == <<"None">>
EmptyStr == <<>>

Get(d, k, default) == IF k \in DOMAIN d THEN d[k] ELSE default

DigitChars == <<"0", "1", "2", "3", "4", "5", "6", "7", "8", "9">>

DigitVal(c) == (CHOOSE i \in 1..10 : DigitChars[i] = c) - 1

\* str(n) for a non-negative int.
RECURSIVE IntToStr(_)
IntToStr(n) ==
    IF n < 10 THEN <<DigitChars[n + 1]>>
    ELSE IntToStr(n \div 10) \o <<DigitChars[(n % 10) + 1]>>

\* int(s) succeeds on a non-empty string of decimal digits (the only numerals
\* the model feeds it) and raises ValueError otherwise.
IsInt(s) == Len(s) > 0 /\ \A i \in 1..Len(s) : \E j \in 1..10 : DigitChars[j] = s[i]

RECURSIVE StrToInt(_)
StrToInt(s) ==
    IF Len(s) = 1 THEN DigitVal(s[1])
    ELSE 10 * StrToInt(SubSeq(s, 1, Len(s) - 1)) + DigitVal(s[Len(s)])

\* s.split(sep) for a one-character separator.
RECURSIVE Split(_, _)
Split(s, sep) ==
    IF \A i \in 1..Len(s) : s[i] # sep THEN <<s>>
    ELSE LET i == CHOOSE k \in 1..Len(s) :
                     s[k] = sep /\ \A j \in 1..(k - 1) : s[j] # sep
         IN  <<SubSeq(s, 1, i - 1)>> \o Split(SubSeq(s, i + 1, Len(s)), sep)

\* HMAC-SHA256 and base64 are taken as injective: the digest is the pair of
\* its key and message, the encoding a tagged copy of the digest.
HmacSha256(key, msg) == <<"hmac", key, msg>>
B64Encode(digest) == <<"b64", digest>>

----------------------------------------------------------------------------
\* Host platform records.

OrderPks == {1, 12}
Seqs == 0..MaxSeq
FulfillmentIds == OrderPks \X Seqs
Existing == {<<1, 0>>, <<12, 1>>}

AdminEmail == "admin@example.com"

ProviderKeys == {"otoStatus", "printAWBURL", "trackingURL", "feedbackLink",
                 "shippingCompanyStatus", "deliveryCompany", "deliverySlotDate"}

\* Fulfillment.composed_id of the host platform: "<order pk>-<fulfillment_order>".
composed_id(fid) == IntToStr(fid[1]) \o <<"-">> \o IntToStr(fid[2])

\* Faulty variant (C7): the identifier without the leading "#".
get_oto_order_id_plain(fid) == composed_id(fid)

get_oto_order_id(fid) == <<"#">> \o composed_id(fid)

generate_cancel_order_and_return_link_data(fid) ==
    [orderId |-> get_oto_order_id(fid)]

\* Faulty variant (C8): the save names tracking_number alone.
SaveTrackingOnly(table, fid, obj, update_fields) ==
    [table EXCEPT ![fid].tracking_number = obj.tracking_number]

\* Model.save(update_fields=...): one UPDATE of the named columns of the row.
Save(table, fid, obj, update_fields) ==
    [table EXCEPT ![fid] =
        [col \in DOMAIN table[fid] |->
            IF col \in update_fields THEN obj[col] ELSE table[fid][col]]]

\* Faulty variant (C5): the metadata is replaced by the items.
store_value_replacing(metadata, items) == items

\* MetadataMixin.store_value_in_metadata: metadata.update(items).
store_value_in_metadata(metadata, items) ==
    [k \in DOMAIN metadata \cup DOMAIN items |->
        IF k \in DOMAIN items THEN items[k] ELSE metadata[k]]

\* saleor.order.actions.cancel_fulfillment, as far as this table goes: the
\* fulfillment row's status becomes canceled.
cancel_fulfillment(table, fid) ==
    [table EXCEPT ![fid].status = "canceled"]

----------------------------------------------------------------------------
\* Webhook requests.

Canceled == <<"c", "a", "n", "c", "e", "l", "e", "d">>
Statuses == {Canceled, <<"C", "a", "n", "c", "e", "l", "e", "d">>}
Timestamps == {IntToStr(n) : n \in 1..MaxTimestamp}
ProviderSecret == <<"k">>
Secrets == {ProviderSecret, <<"x">>}

MalformedIds == {<<"#", "1">>, <<"#", "a", "-", "0">>}
OrderIds == {get_oto_order_id(fid) : fid \in FulfillmentIds} \cup MalformedIds

\* The plugin configuration: the secret may be unset.
Configs == {<<>>} \cup
           {[PUBLIC_KEY_FOR_SIGNATURE |-> k] : k \in Secrets \cup {EmptyStr}}

\* The optional carrier fields of a payload: none of them, or all.
CarrierFields == {
    <<>>,
    [trackingNumber |-> <<"T">>, printAWBURL |-> <<"P">>, trackingURL |-> <<"U">>,
     feedbackLink |-> <<"F">>, dcStatus |-> <<"D">>, deliveryCompany |-> <<"C">>,
     deliverySlotDate |-> <<"S">>] }

Message(orderId, status, timestamp) ==
    orderId \o <<":">> \o status \o <<":">> \o timestamp

Sign(key, orderId, status, timestamp) ==
    B64Encode(HmacSha256(key, Message(orderId, status, timestamp)))

Fields(orderId, status, timestamp) ==
    [orderId |-> orderId, status |-> status, timestamp |-> timestamp]

\* What reaches the handler: payloads the provider signed with its secret,
\* payloads with no signature, and a payload lacking a required field.
HandlerPayloads ==
    LET t == IntToStr(1)
        signed == {Fields(o, s, t) @@ [signature |-> Sign(ProviderSecret, o, s, t)] @@ c :
                     <<o, s, c>> \in OrderIds \X Statuses \X CarrierFields}
        unsigned == {Fields(o, Canceled, t) @@ c :
                     <<o, c>> \in OrderIds \X (CarrierFields \ {<<>>})}
        lacking == {[orderId |-> get_oto_order_id(<<1, 0>>), status |-> Canceled]}
    IN  signed \cup unsigned \cup lacking

HandlerConfigs == {<<>>, [PUBLIC_KEY_FOR_SIGNATURE |-> ProviderSecret]}

----------------------------------------------------------------------------
\* Responses.

HttpResponse(body) == [status |-> 200, body |-> body]
HttpResponseForbidden(body) == [status |-> 403, body |-> body]
\* An exception that leaves the view: the host answers 500.
Unhandled(exc) == [status |-> 500, body |-> <<exc>>]

Call(op, fid, fields) == [op |-> op, fid |-> fid, fields |-> fields]

----------------------------------------------------------------------------
\* Faulty variant (C1): the comparison is skipped when no signature came.
verify_webhook_if_present(data, config) ==
    IF ~({"orderId", "status", "timestamp"} \subseteq DOMAIN data)
    THEN [outcome |-> "raise", response |-> Unhandled("KeyError")]
    ELSE LET msg == Message(data["orderId"], data["status"], data["timestamp"])
             h == B64Encode(HmacSha256(Get(config, "PUBLIC_KEY_FOR_SIGNATURE", EmptyStr), msg))
         IN  IF "signature" \in DOMAIN data /\ h # data["signature"]
             THEN [outcome |-> "forbidden",
                   response |-> HttpResponseForbidden(<<"Invalid signature">>)]
             ELSE [outcome |-> "true", response |-> None]

\* Faulty variant (C2): the configured secret is ignored, the key is empty.
verify_webhook_empty_key(data, config) ==
    IF ~({"orderId", "status", "timestamp"} \subseteq DOMAIN data)
    THEN [outcome |-> "raise", response |-> Unhandled("KeyError")]
    ELSE LET signature == Get(data, "signature", None)
             msg == Message(data["orderId"], data["status"], data["timestamp"])
             h == B64Encode(HmacSha256(EmptyStr, msg))
         IN  IF h # signature
             THEN [outcome |-> "forbidden",
                   response |-> HttpResponseForbidden(<<"Invalid signature">>)]
             ELSE [outcome |-> "true", response |-> None]

\* verify_webhook: outcome "raise" (KeyError on a required field), "forbidden"
\* (the HttpResponseForbidden it returns) or "true".
verify_webhook(data, config) ==
    IF ~({"orderId", "status", "timestamp"} \subseteq DOMAIN data)
    THEN [outcome |-> "raise", response |-> Unhandled("KeyError")]
    ELSE LET signature == Get(data, "signature", None)
             msg == Message(data["orderId"], data["status"], data["timestamp"])
             h == B64Encode(HmacSha256(Get(config, "PUBLIC_KEY_FOR_SIGNATURE", EmptyStr), msg))
         IN  IF h # signature
             THEN [outcome |-> "forbidden",
                   response |-> HttpResponseForbidden(<<"Invalid signature">>)]
             ELSE [outcome |-> "true", response |-> None]

\* Lines 121-125: the lookup key the handler derives from orderId, or the
\* exception the derivation raises.
ResolveKey(orderIdStr) ==
    LET orderId == Split(orderIdStr, "-")
        head == Split(orderId[1], "#")
    IN  IF Len(head) < 2 THEN [ok |-> FALSE, exc |-> "IndexError"]
        ELSE IF ~IsInt(head[2]) THEN [ok |-> FALSE, exc |-> "ValueError"]
        ELSE IF Len(orderId) < 2 THEN [ok |-> FALSE, exc |-> "IndexError"]
        ELSE IF ~IsInt(orderId[2]) THEN [ok |-> FALSE, exc |-> "ValueError"]
        ELSE [ok |-> TRUE, fid |-> <<StrToInt(head[2]), StrToInt(orderId[2])>>]

\* Lines 121-125: Fulfillment.objects.filter(order__pk=..., fulfillment_order=...)
\* .first() on table t: "raise", "none" or "found" with the row's key.
Lookup(t, orderIdStr) ==
    LET key == ResolveKey(orderIdStr)
    IN  IF ~key.ok THEN [outcome |-> "raise", exc |-> key.exc]
        ELSE IF key.fid \in DOMAIN t THEN [outcome |-> "found", fid |-> key.fid]
        ELSE [outcome |-> "none"]

\* Faulty variant (C4): the tracking number is appended to the one held.
ApplyPayloadAppending(obj, data) ==
    [obj EXCEPT
        !.tracking_number = obj.tracking_number \o Get(data, "trackingNumber", EmptyStr),
        !.metadata = store_value_in_metadata(obj.metadata,
            [otoStatus |-> Get(data, "status", EmptyStr),
             printAWBURL |-> Get(data, "printAWBURL", EmptyStr),
             trackingURL |-> Get(data, "trackingURL", EmptyStr),
             feedbackLink |-> Get(data, "feedbackLink", EmptyStr),
             shippingCompanyStatus |-> Get(data, "dcStatus", EmptyStr),
             deliveryCompany |-> Get(data, "deliveryCompany", EmptyStr),
             deliverySlotDate |-> Get(data, "deliverySlotDate", EmptyStr)])]

\* Faulty variant (C10): only the fields the payload carries are stored.
ApplyPayloadPresentOnly(obj, data) ==
    LET items == [otoStatus |-> "status", printAWBURL |-> "printAWBURL",
                  trackingURL |-> "trackingURL", feedbackLink |-> "feedbackLink",
                  shippingCompanyStatus |-> "dcStatus",
                  deliveryCompany |-> "deliveryCompany",
                  deliverySlotDate |-> "deliverySlotDate"]
        present == {k \in DOMAIN items : items[k] \in DOMAIN data}
    IN  [obj EXCEPT
            !.tracking_number = Get(data, "trackingNumber", obj.tracking_number),
            !.metadata = store_value_in_metadata(obj.metadata,
                [k \in present |-> data[items[k]]])]

\* Lines 127-139: the in-memory fulfillment after the payload is applied.
ApplyPayload(obj, data) ==
    LET status == Get(data, "status", EmptyStr)
    IN  [obj EXCEPT
            !.tracking_number = Get(data, "trackingNumber", EmptyStr),
            !.metadata = store_value_in_metadata(obj.metadata,
                [otoStatus |-> status,
                 printAWBURL |-> Get(data, "printAWBURL", EmptyStr),
                 trackingURL |-> Get(data, "trackingURL", EmptyStr),
                 feedbackLink |-> Get(data, "feedbackLink", EmptyStr),
                 shippingCompanyStatus |-> Get(data, "dcStatus", EmptyStr),
                 deliveryCompany |-> Get(data, "deliveryCompany", EmptyStr),
                 deliverySlotDate |-> Get(data, "deliverySlotDate", EmptyStr)])]

\* Line 140: the columns the handler persists.
UpdateFields == {"tracking_number", "metadata"}

\* Line 144: User.objects.get_or_create(email=...).
get_or_create(table, email) == table \cup {email}

\* Faulty variant (C3): the status is compared with another spelling.
ShouldCancelOtherSpelling(status) ==
    status = <<"c", "a", "n", "c", "e", "l", "l", "e", "d">>

\* Line 145: the test that guards the cancellation.
ShouldCancel(status) == status = Canceled

\* Line 157: the body of the not-found response, an f-string around orderId.
NotFoundBody(orderIdStr) == <<"Fulfillment ", orderIdStr, " not found))">>

\* Lines 126-154: the handler once the fulfillment fid is found, on tables
\* (t, u): the tables it leaves, its response and its host calls, in order.
FoundPath(t, u, fid, data) ==
    LET obj == ApplyPayload(t[fid], data)
        saved == Save(t, fid, obj, UpdateFields)
        cancel == ShouldCancel(Get(data, "status", EmptyStr))
    IN  [db |-> IF cancel THEN cancel_fulfillment(saved, fid) ELSE saved,
         users |-> get_or_create(u, AdminEmail),
         response |-> HttpResponse(<<"OK">>),
         calls |-> <<Call("save", fid, UpdateFields),
                     Call("get_or_create", fid, {})>>
                   \o (IF cancel THEN <<Call("cancel_fulfillment", fid, {})>>
                       ELSE <<>>),
         fid |-> fid]

\* handle_webhook run start to end on tables (t, u).
Handle(t, u, data, config) ==
    LET v == verify_webhook(data, config)
        same(resp) == [db |-> t, users |-> u, response |-> resp, calls |-> <<>>,
                       fid |-> None]
    IN  IF v.outcome = "raise" THEN same(v.response)
        ELSE IF v.outcome # "true"
             THEN same(HttpResponseForbidden(<<"Webhook is not verified!">>))
        ELSE LET f == Lookup(t, data["orderId"])
             IN  IF f.outcome = "raise" THEN same(Unhandled(f.exc))
                 ELSE IF f.outcome = "none"
                      THEN same(HttpResponse(NotFoundBody(data["orderId"])))
                 ELSE FoundPath(t, u, f.fid, data)

----------------------------------------------------------------------------
\* Initial state.

InitialRow ==
    [tracking_number |-> EmptyStr,
     metadata |-> [foo |-> <<"b", "a", "r">>, otoStatus |-> <<"n", "e", "w">>],
     status |-> "fulfilled"]

NoRequest == [kind |-> "none"]
NoPayload == [kind |-> "none"]
Pending == [outcome |-> "pending"]
Idle == [pc |-> "idle"]
Workers == {"w1", "w2"}

Init ==
    /\ db = [fid \in Existing |-> InitialRow]
    /\ users \in {{}, {AdminEmail}}
    /\ outbound = NoPayload
    /\ last = NoRequest
    /\ procs = [w \in Workers |-> Idle]
    /\ vreq = NoRequest
    /\ vres = Pending
    /\ vbase = NoRequest
    /\ persisted = [fid \in Existing |-> NoPayload]

----------------------------------------------------------------------------
\* Specification Spec: webhooks handled one after another.

\* handle_webhook(request, config), start to end.  last records the request,
\* the row it found as it was before, whether the request repeats the previous
\* one, the response and the host calls.
handle_webhook(data, config) ==
    LET r == Handle(db, users, data, config)
    IN  /\ db' = r.db
        /\ users' = r.users
        /\ last' = [kind |-> "handled", data |-> data, config |-> config,
                    repeat |-> (last.kind = "handled" /\ last.data = data
                                /\ last.config = config),
                    fid |-> r.fid,
                    before |-> IF r.fid = None THEN None ELSE db[r.fid],
                    response |-> r.response, calls |-> r.calls]
        /\ persisted' = IF r.fid = None THEN persisted
                        ELSE [persisted EXCEPT ![r.fid] = data]
        /\ UNCHANGED <<outbound, procs, vreq, vres, vbase>>

Next ==
    \E data \in HandlerPayloads, config \in HandlerConfigs : handle_webhook(data, config)

Spec == Init /\ [][Next]_vars

----------------------------------------------------------------------------
\* Specification SpecExchange: one exchange with the provider.  The plugin
\* builds a cancel-order request, a webhook arrives, its signature is checked
\* and its orderId resolved; a verified webhook is then changed in one place
\* (signature kept) and checked again.

\* Every payload with the three signed fields whose signature, when present,
\* was made with some key over some triple (its own or another).
ExchangePayloads ==
    LET triples == OrderIds \X Statuses \X Timestamps
        keys == Secrets \cup {EmptyStr}
    IN  {Fields(m[1], m[2], m[3]) : m \in triples}
        \cup {Fields(m[1], m[2], m[3]) @@ [signature |-> Sign(k, n[1], n[2], n[3])] :
                <<m, n, k>> \in triples \X triples \X keys}

\* config.get("PUBLIC_KEY_FOR_SIGNATURE", ""): the secret in force.
SecretOf(config) == Get(config, "PUBLIC_KEY_FOR_SIGNATURE", EmptyStr)

\* The requests that differ from req in exactly one of orderId, status,
\* timestamp and the secret in force, the signature kept.
OneChange(req) ==
    {[req EXCEPT !.data = [req.data EXCEPT !["orderId"] = o]] :
        o \in OrderIds \ {req.data["orderId"]}}
    \cup {[req EXCEPT !.data = [req.data EXCEPT !["status"] = st]] :
        st \in Statuses \ {req.data["status"]}}
    \cup {[req EXCEPT !.data = [req.data EXCEPT !["timestamp"] = ts]] :
        ts \in Timestamps \ {req.data["timestamp"]}}
    \cup {[req EXCEPT !.config = c] :
        c \in {c \in Configs : SecretOf(c) # SecretOf(req.config)}}

\* The fulfillment table holds the rows of Existing or the other rows.
InitExchange ==
    /\ \E rows \in {Existing, FulfillmentIds \ Existing} :
          /\ db = [fid \in rows |-> InitialRow]
          /\ persisted = [fid \in rows |-> NoPayload]
    /\ users = {}
    /\ outbound = NoPayload
    /\ last = NoRequest
    /\ procs = [w \in Workers |-> Idle]
    /\ vreq = NoRequest
    /\ vres = Pending
    /\ vbase = NoRequest

BuildCancelOrder(fid) ==
    /\ vreq = NoRequest
    /\ outbound' = generate_cancel_order_and_return_link_data(fid)
    /\ UNCHANGED <<db, users, last, procs, vreq, vres, vbase, persisted>>

Receive ==
    /\ vreq = NoRequest
    /\ \E data \in ExchangePayloads, config \in Configs :
          vreq' = [kind |-> "request", data |-> data, config |-> config]
    /\ UNCHANGED <<db, users, outbound, last, procs, vres, vbase, persisted>>

\* Lines 119-125 on the request: the verdict of verify_webhook and, when it
\* is True, what the lookup finds.
Check ==
    /\ vreq # NoRequest
    /\ vres = Pending
    /\ LET v == verify_webhook(vreq.data, vreq.config)
       IN  vres' = [outcome |-> v.outcome,
                    lookup |-> IF v.outcome = "true"
                               THEN Lookup(db, vreq.data["orderId"])
                               ELSE [outcome |-> "skipped"]]
    /\ UNCHANGED <<db, users, outbound, last, procs, vreq, vbase, persisted>>

Change ==
    /\ vres.outcome = "true"
    /\ vbase = NoRequest
    /\ vreq' \in OneChange(vreq)
    /\ vbase' = vreq
    /\ vres' = Pending
    /\ UNCHANGED <<db, users, outbound, last, procs, persisted>>

NextExchange ==
    \/ \E fid \in DOMAIN db : BuildCancelOrder(fid)
    \/ Receive
    \/ Check
    \/ Change

SpecExchange == InitExchange /\ [][NextExchange]_vars

----------------------------------------------------------------------------
\* Specification SpecConc: two deliveries in flight.  Each worker runs
\* handle_webhook; a step is what the handler does up to and including one
\* statement on the shared tables (lookup, save, get_or_create, cancel).

\* Deliveries under the provider's secret: two different payloads for
\* fulfillment (1, 0), one for (12, 1), one for a fulfillment that does not
\* exist and one unsigned.
ConcPayloads ==
    LET t == IntToStr(1)
        full == CHOOSE c \in CarrierFields : DOMAIN c # {}
        signed(fid, st, c) ==
            Fields(get_oto_order_id(fid), st, t)
            @@ [signature |-> Sign(ProviderSecret, get_oto_order_id(fid), st, t)] @@ c
    IN  {signed(<<1, 0>>, Canceled, <<>>)}
        \cup {signed(<<1, 0>>, st, full) : st \in Statuses \ {Canceled}}
        \cup {signed(<<12, 1>>, Canceled, full),
              signed(<<1, 1>>, Canceled, full),
              Fields(get_oto_order_id(<<1, 0>>), Canceled, t) @@ full}

ConcConfig == [PUBLIC_KEY_FOR_SIGNATURE |-> ProviderSecret]

Done(w, response) == [pc |-> "done", response |-> response]

\* Lines 119-126: verify, parse, look the fulfillment up.
Start(w) ==
    /\ procs[w].pc = "idle"
    /\ \E data \in ConcPayloads :
          LET v == verify_webhook(data, ConcConfig)
              f == Lookup(db, data["orderId"])
          IN  procs' = [procs EXCEPT ![w] =
                IF v.outcome = "raise" THEN Done(w, v.response)
                ELSE IF v.outcome # "true"
                     THEN Done(w, HttpResponseForbidden(<<"Webhook is not verified!">>))
                ELSE IF f.outcome = "raise" THEN Done(w, Unhandled(f.exc))
                ELSE IF f.outcome = "none"
                     THEN Done(w, HttpResponse(NotFoundBody(data["orderId"])))
                ELSE [pc |-> "found", data |-> data, fid |-> f.fid,
                      read |-> db[f.fid], obj |-> db[f.fid]]]
    /\ UNCHANGED <<db, users, outbound, last, vreq, vres, vbase, persisted>>

\* Lines 127-140: apply the payload to the object in memory and save it.
Persist(w) ==
    /\ procs[w].pc = "found"
    /\ LET p == procs[w]
           obj == ApplyPayload(p.obj, p.data)
       IN  /\ db' = Save(db, p.fid, obj, UpdateFields)
           /\ procs' = [procs EXCEPT ![w] = [p EXCEPT !.pc = "saved", !.obj = obj]]
           /\ persisted' = [persisted EXCEPT ![p.fid] = p.data]
    /\ UNCHANGED <<users, outbound, last, vreq, vres, vbase>>

\* Line 144.
GetUser(w) ==
    /\ procs[w].pc = "saved"
    /\ users' = get_or_create(users, AdminEmail)
    /\ procs' = [procs EXCEPT ![w].pc = "user"]
    /\ UNCHANGED <<db, outbound, last, vreq, vres, vbase, persisted>>

\* Lines 145-154.
Finish(w) ==
    /\ procs[w].pc = "user"
    /\ LET p == procs[w]
       IN  /\ db' = IF ShouldCancel(Get(p.data, "status", EmptyStr))
                    THEN cancel_fulfillment(db, p.fid) ELSE db
           /\ procs' = [procs EXCEPT ![w] = Done(w, HttpResponse(<<"OK">>))]
    /\ UNCHANGED <<users, outbound, last, vreq, vres, vbase, persisted>>

\* The response is sent; the worker takes the next request.
Respond(w) ==
    /\ procs[w].pc = "done"
    /\ procs' = [procs EXCEPT ![w] = Idle]
    /\ UNCHANGED <<db, users, outbound, last, vreq, vres, vbase, persisted>>

NextConc ==
    \E w \in Workers :
        Start(w) \/ Persist(w) \/ GetUser(w) \/ Finish(w) \/ Respond(w)

SpecConc == Init /\ [][NextConc]_vars

----------------------------------------------------------------------------
\* Vocabulary of the properties, stated apart from the handler's operators.

RequiredFields == {"orderId", "status", "timestamp"}

\* base64(HMAC-SHA256(key = K, message = "orderId:status:timestamp")).
ExpectedSignature(data, key) ==
    <<"b64", <<"hmac", key,
        data["orderId"] \o <<":">> \o data["status"] \o <<":">> \o data["timestamp"]>>>>

WellSigned(data, config) ==
    /\ RequiredFields \subseteq DOMAIN data
    /\ "signature" \in DOMAIN data
    /\ data["signature"] = ExpectedSignature(data, SecretOf(config))

BadlySigned(data, config) ==
    /\ RequiredFields \subseteq DOMAIN data
    /\ \/ "signature" \notin DOMAIN data
       \/ data["signature"] # ExpectedSignature(data, SecretOf(config))

\* orderId is "#<pk>-<sequence>" for the fulfillment (pk, sequence).
Denotes(data, fid) ==
    data["orderId"] = <<"#">> \o IntToStr(fid[1]) \o <<"-">> \o IntToStr(fid[2])

Handled == last.kind = "handled"

\* The last request was correctly signed and names the row fid of the table.
ValidFor(fid) ==
    /\ Handled
    /\ WellSigned(last.data, last.config)
    /\ fid \in DOMAIN db
    /\ Denotes(last.data, fid)

OrEmpty(data, k) == IF k \in DOMAIN data THEN data[k] ELSE <<>>

\* The row carries the tracking number and the seven provider fields of data.
TakenFrom(row, data) ==
    /\ row.tracking_number = OrEmpty(data, "trackingNumber")
    /\ ProviderKeys \subseteq DOMAIN row.metadata
    /\ row.metadata["otoStatus"] = data["status"]
    /\ row.metadata["printAWBURL"] = OrEmpty(data, "printAWBURL")
    /\ row.metadata["trackingURL"] = OrEmpty(data, "trackingURL")
    /\ row.metadata["feedbackLink"] = OrEmpty(data, "feedbackLink")
    /\ row.metadata["shippingCompanyStatus"] = OrEmpty(data, "dcStatus")
    /\ row.metadata["deliveryCompany"] = OrEmpty(data, "deliveryCompany")
    /\ row.metadata["deliverySlotDate"] = OrEmpty(data, "deliverySlotDate")

CallsOf(op) == {i \in DOMAIN last.calls : last.calls[i].op = op}

----------------------------------------------------------------------------
C3_CancelCascade ==
    \A fid \in DOMAIN db :
        (ValidFor(fid) /\ last.data["status"] = Canceled)
        => /\ Cardinality(CallsOf("cancel_fulfillment")) = 1
           /\ \A i \in CallsOf("cancel_fulfillment") :
                /\ last.calls[i].fid = fid
                /\ \E j \in CallsOf("save") :
                     /\ j < i
                     /\ last.calls[j].fid = fid
                     /\ last.calls[j].fields = {"tracking_number", "metadata"}
           /\ TakenFrom(db[fid], last.data)
           /\ db[fid].status = "canceled"
           /\ last.response = [status |-> 200, body |-> <<"OK">>]

C3_Witness ==
    \E fid \in DOMAIN db :
        /\ ValidFor(fid)
        /\ last.data["status"] = Canceled
        /\ "trackingNumber" \in DOMAIN last.data
        /\ CallsOf("cancel_fulfillment") # {}

\* C4: a valid payload delivered twice in a row leaves tracking_number and
\* metadata after the second delivery as they were after the first.
C4_Idempotent ==
    \A fid \in DOMAIN db :
        (ValidFor(fid) /\ last.repeat)
        => /\ last.fid = fid
           /\ db[fid].tracking_number = last.before.tracking_number
           /\ db[fid].metadata = last.before.metadata

C4_Witness ==
    \E fid \in DOMAIN db :
        /\ ValidFor(fid)
        /\ last.repeat
        /\ "trackingNumber" \in DOMAIN last.data
        /\ db[fid].tracking_number # <<>>

\* C5: a valid webhook keeps every metadata key outside the seven provider
\* keys with its value, leaves the seven present, and saves no column but
\* tracking_number and metadata.
C5_MergeNotReplace ==
    \A fid \in DOMAIN db :
        ValidFor(fid)
        => /\ last.fid = fid
           /\ \A k \in DOMAIN last.before.metadata \ ProviderKeys :
                /\ k \in DOMAIN db[fid].metadata
                /\ db[fid].metadata[k] = last.before.metadata[k]
           /\ ProviderKeys \subseteq DOMAIN db[fid].metadata
           /\ CallsOf("save") # {}
           /\ \A i \in CallsOf("save") :
                last.calls[i].fields = {"tracking_number", "metadata"}

C5_Witness ==
    \E fid \in DOMAIN db :
        /\ ValidFor(fid)
        /\ "foo" \in DOMAIN last.before.metadata
        /\ "trackingURL" \notin DOMAIN last.before.metadata
        /\ "foo" \in DOMAIN db[fid].metadata
        /\ "trackingURL" \in DOMAIN db[fid].metadata

\* C6: a correctly signed webhook whose orderId parses to a pair that matches
\* no fulfillment changes nothing and is answered 200 with the body
\* "Fulfillment {orderId} not found".
C6_NotFoundResponse ==
    [][ (/\ last'.kind = "handled"
         /\ WellSigned(last'.data, last'.config)
         /\ \E fid \in FulfillmentIds \ DOMAIN db : Denotes(last'.data, fid))
        => /\ db' = db
           /\ users' = users
           /\ last'.calls = <<>>
           /\ last'.response =
                [status |-> 200,
                 body |-> <<"Fulfillment ", last'.data["orderId"], " not found">>] ]_vars

\* C9: a valid webhook for an existing fulfillment whose status is not
\* "canceled" invokes no cancellation and changes nothing in the tables but
\* that fulfillment's tracking_number and metadata.
C9_OnlyFulfillmentUpdated ==
    [][ \A fid \in DOMAIN db :
          (/\ last'.kind = "handled"
           /\ WellSigned(last'.data, last'.config)
           /\ Denotes(last'.data, fid)
           /\ last'.data["status"] # Canceled)
          => /\ \A i \in DOMAIN last'.calls : last'.calls[i].op # "cancel_fulfillment"
             /\ users' = users
             /\ \A other \in DOMAIN db \ {fid} : db'[other] = db[other]
             /\ db'[fid].status = db[fid].status
             /\ db'[fid].metadata["otoStatus"] = last'.data["status"] ]_vars

\* C10: after a valid webhook the fulfillment carries the tracking number and
\* the seven provider fields of that payload, the empty string for an absent
\* field, whatever an earlier payload had set.
C10_LastDeliveryWins ==
    \A fid \in DOMAIN db :
        ValidFor(fid) => TakenFrom(db[fid], last.data)

\* An earlier delivery had set a tracking URL; the last one has none.
C10_Witness ==
    \E fid \in DOMAIN db :
        /\ ValidFor(fid)
        /\ "trackingURL" \notin DOMAIN last.data
        /\ "trackingURL" \in DOMAIN last.before.metadata
        /\ last.before.metadata["trackingURL"] # <<>>
        /\ db[fid].metadata["trackingURL"] = <<>>

----------------------------------------------------------------------------
\* Properties of one exchange (SpecExchange).

Checked == vreq.kind = "request" /\ vres # Pending

\* How many of orderId, status, timestamp and the secret in force differ
\* between two requests.
Differences(a, b) ==
    Cardinality({k \in RequiredFields : a.data[k] # b.data[k]}
                \cup (IF SecretOf(a.config) # SecretOf(b.config) THEN {"secret"} ELSE {}))

SameSignature(a, b) ==
    /\ ("signature" \in DOMAIN a.data) = ("signature" \in DOMAIN b.data)
    /\ "signature" \in DOMAIN a.data => a.data["signature"] = b.data["signature"]

\* C2: verify_webhook succeeds exactly when the signature is the base64
\* HMAC-SHA256 of "orderId:status:timestamp" under the secret, and a verified
\* request changed in exactly one of orderId, status, timestamp and the secret,
\* the signature kept, does not verify.
C2_SignatureExact ==
    Checked
    => /\ (vres.outcome = "true")
            <=> /\ "signature" \in DOMAIN vreq.data
                /\ vreq.data["signature"]
                     = ExpectedSignature(vreq.data, SecretOf(vreq.config))
       /\ (/\ vbase # NoRequest
           /\ WellSigned(vbase.data, vbase.config)
           /\ SameSignature(vbase, vreq)
           /\ Differences(vbase, vreq) = 1)
          => vres.outcome = "forbidden"

\* A verified request whose timestamp alone was changed has been refused.
C2_Witness ==
    /\ Checked
    /\ vbase # NoRequest
    /\ WellSigned(vbase.data, vbase.config)
    /\ SameSignature(vbase, vreq)
    /\ Differences(vbase, vreq) = 1
    /\ vbase.data["timestamp"] # vreq.data["timestamp"]
    /\ vres.outcome = "forbidden"

----------------------------------------------------------------------------
\* Properties of concurrent deliveries (SpecConc).

\* The tracking number and the seven provider fields of a row are those of
\* the initial row.
AsInitially(row) ==
    /\ row.tracking_number = InitialRow.tracking_number
    /\ \A k \in ProviderKeys :
         /\ (k \in DOMAIN row.metadata) = (k \in DOMAIN InitialRow.metadata)
         /\ k \in DOMAIN row.metadata => row.metadata[k] = InitialRow.metadata[k]

\* C8: in every state of every interleaving, the saved tracking_number and
\* seven provider fields of a fulfillment are all as before any delivery or
\* all those of one delivered payload, the one saved last.
C8_NoPartialUpdate ==
    \A fid \in DOMAIN db :
        IF persisted[fid] = NoPayload THEN AsInitially(db[fid])
        ELSE TakenFrom(db[fid], persisted[fid])

\* Two workers read the same row before either saved, then both saved
\* different payloads.
C8_Witness ==
    \E w1, w2 \in Workers :
        /\ w1 # w2
        /\ procs[w1].pc \in {"saved", "user"}
        /\ procs[w2].pc \in {"saved", "user"}
        /\ procs[w1].fid = procs[w2].fid
        /\ procs[w1].data # procs[w2].data
        /\ procs[w1].read = InitialRow
        /\ procs[w2].read = InitialRow
        /\ persisted[procs[w1].fid] = procs[w1].data

=============================================================================
